---- MODULE Spec2Model ----
(***************************************************************************)
(* Model of similarity.py: the weighted Levenshtein distance, the concept  *)
(* and language level normalised distance (NLD) aggregation, and the ASJP  *)
(* registry construction loop.                                             *)
(*                                                                         *)
(* Representation.  A Python str is a sequence of one-character strings.   *)
(* A Python float is a finite IEEE 754 binary64 value, sign, 53-bit        *)
(* significand and exponent, or inf, -inf or nan; +, *, / and              *)
(* statistics.mean round to nearest, ties to even, as the interpreter      *)
(* does.  -0.0 is represented as 0.0, which it equals and from which no    *)
(* result of the program tells it apart.  A result beyond the largest      *)
(* float is inf, one below the smallest normal float is rounded to a       *)
(* multiple of 2^-1074.                                                    *)
(***************************************************************************)
EXTENDS Integers, Sequences, FiniteSets, TLC

VARIABLES
    s1, s2, vowel_weight, lev_ret,      \* a call of levenshtein_distance
    forms1, forms2, nld_ret,            \* a call of concept_nld
    self_concepts, other_concepts,      \* a call of Wordlist.mean_nld
    mean_ret,
    rows, row_i, language_wordlist      \* the row loop of ASJP.__init__

levVars == <<s1, s2, vowel_weight, lev_ret>>
conceptVars == <<forms1, forms2, nld_ret>>
langVars == <<self_concepts, other_concepts, mean_ret>>
asjpVars == <<rows, row_i, language_wordlist>>
vars == <<levVars, conceptVars, langVars, asjpVars>>

\* ---------------------------------------------------------------- bounds
\* every string up to this length is given to levenshtein_distance
MaxLen == 2
\* most word forms in a list given to concept_nld
MaxForms == 2
\* most rows in the database file
MaxRows == 3

\* ------------------------------------------------------- float arithmetic
\* Integers of up to 81 bits, as three limbs <<H, L, X>> of 27 bits:
\* H * B^2 + L * B + X.
B == 2 ^ 27
Pow2 == [k \in 0..30 |-> 2 ^ k]

Norm3(H, L, X) ==
    LET l2 == L + X \div B
    IN  <<H + l2 \div B, l2 % B, X % B>>

Add3(a, b) == Norm3(a[1] + b[1], a[2] + b[2], a[3] + b[3])

\* a - b for a >= b
Sub3(a, b) ==
    LET x == a[3] - b[3]
        bx == IF x < 0 THEN 1 ELSE 0
        l == a[2] - b[2] - bx
        bl == IF l < 0 THEN 1 ELSE 0
    IN  <<a[1] - b[1] - bl, l + bl * B, x + bx * B>>

Less3(a, b) ==
    \/ a[1] < b[1]
    \/ a[1] = b[1] /\ a[2] < b[2]
    \/ a[1] = b[1] /\ a[2] = b[2] /\ a[3] < b[3]

\* number of bits of one limb, nine bits at a time
BL9 == [n \in 0..511 |-> CHOOSE k \in 0..9 : n < Pow2[k] /\ (k = 0 \/ n >= Pow2[k - 1])]

BL(n) ==
    IF n >= Pow2[18] THEN 18 + BL9[n \div Pow2[18]]
    ELSE IF n >= Pow2[9] THEN 9 + BL9[n \div Pow2[9]]
    ELSE BL9[n]

BitLen3(N) ==
    IF N[1] > 0 THEN 54 + BL(N[1])
    ELSE IF N[2] > 0 THEN 27 + BL(N[2])
    ELSE BL(N[3])

\* N shifted right by k bits, and whether a nonzero bit was shifted out
Shr3(N, k) ==
    LET a == k \div 27
        p == Pow2[k % 27]
        r == Pow2[27 - (k % 27)]
        M == CASE a = 0 -> N
               [] a = 1 -> <<0, N[1], N[2]>>
               [] a = 2 -> <<0, 0, N[1]>>
               [] OTHER -> <<0, 0, 0>>
        out == CASE a = 0 -> FALSE
                 [] a = 1 -> N[3] # 0
                 [] a = 2 -> N[3] # 0 \/ N[2] # 0
                 [] OTHER -> N # <<0, 0, 0>>
    IN  [q |-> <<M[1] \div p, (M[1] % p) * r + M[2] \div p,
                 (M[2] % p) * r + M[3] \div p>>,
         lost |-> out \/ M[3] % p # 0]

\* N shifted left by k bits; the result has at most 81 bits
Shl3(N, k) ==
    LET a == k \div 27
        p == Pow2[k % 27]
        r == Pow2[27 - (k % 27)]
        M == <<N[1] * p + N[2] \div r, (N[2] % r) * p + N[3] \div r, (N[3] % r) * p>>
    IN  CASE a = 0 -> M
          [] a = 1 -> <<M[2], M[3], 0>>
          [] OTHER -> <<M[3], 0, 0>>

\* N with its lowest bit set when sticky: the mark of a discarded nonzero tail
Sticky(N, sticky) ==
    IF sticky /\ N[3] % 2 = 0 THEN <<N[1], N[2], N[3] + 1>> ELSE N

\* A Python float (IEEE 754 binary64, finite) is <<s, h, l, e>>: the value
\* s * (h * B + l) * 2^e with sign s in {-1, 1} and a 53-bit significand
\* h * B + l in [2^52, 2^53); 0.0 is <<0, 0, 0, 0>>.
\* The other floats are inf, -inf and nan.
Zero == <<0, 0, 0, 0>>
PosInf == <<"inf", 1>>
NegInf == <<"inf", -1>>
NaN == <<"nan">>
IsNaN(x) == Len(x) = 1
IsInf(x) == Len(x) = 2

\* The exponent of the largest float, (2^53 - 1) * 2^971, and the spacing
\* 2^-1074 of the smallest floats (the subnormal ones, kept here with a
\* 53-bit significand and an exponent below -1074).
MaxExp == 971
MinExp == -1074

\* N without its k >= 1 lowest bits, rounded to nearest, ties to even.
RoundShift(N, k) ==
    LET sh == Shr3(N, k - 1)
        m == Shr3(sh.q, 1).q
    IN  IF sh.q[3] % 2 = 1 /\ (sh.lost \/ m[3] % 2 = 1)
        THEN Add3(m, <<0, 0, 1>>)
        ELSE m

\* The float whose 53-bit significand is the two low limbs of m.
PackLimbs(s, m, e) == <<s, m[2], m[3], e>>

\* The float s * M * 2^e for M of nb bits, at most 53, or 54 when M is 2^53:
\* inf beyond the largest float.
PackBits(s, M, e, nb) ==
    IF e - (53 - nb) > MaxExp THEN (IF s = 1 THEN PosInf ELSE NegInf)
    ELSE IF nb = 54 THEN <<s, Pow2[25], 0, e + 1>>
    ELSE PackLimbs(s, Shl3(M, 53 - nb), e - (53 - nb))

Pack(s, M, e) ==
    IF M = <<0, 0, 0>> THEN Zero ELSE PackBits(s, M, e, BitLen3(M))

\* Bits that s * N * 2^e, N of n bits, loses in rounding: those beyond 53,
\* and those below 2^-1074.
Dropped(n, e) == IF e + n - 53 < MinExp THEN MinExp - e ELSE n - 53

RoundDropped(s, N, e, k) ==
    IF k <= 0 THEN Pack(s, N, e) ELSE Pack(s, RoundShift(N, k), e + k)

\* s * N * 2^e rounded to the nearest float, ties to even.
Round3(s, N, e) ==
    IF N = <<0, 0, 0>> THEN Zero
    ELSE RoundDropped(s, N, e, Dropped(BitLen3(N), e))

\* float(i) of an int i
float(i) ==
    IF i = 0 THEN Zero
    ELSE Round3(IF i < 0 THEN -1 ELSE 1, <<0, 0, IF i < 0 THEN -i ELSE i>>, 0)

\* x + y: the exact sum rounded once.  The operand of smaller exponent is
\* aligned on three guard bits, a discarded tail leaving a sticky bit.
FAdd(x, y) ==
    IF IsNaN(x) \/ IsNaN(y) THEN NaN
    ELSE IF IsInf(x) THEN (IF IsInf(y) /\ y # x THEN NaN ELSE x)
    ELSE IF IsInf(y) THEN y
    ELSE IF x[1] = 0 THEN y
    ELSE IF y[1] = 0 THEN x
    ELSE LET big == IF x[4] >= y[4] THEN x ELSE y
             small == IF x[4] >= y[4] THEN y ELSE x
             A == Shl3(<<0, big[2], big[3]>>, 3)
             sh == Shr3(Shl3(<<0, small[2], small[3]>>, 3), big[4] - small[4])
             Bq == Sticky(sh.q, sh.lost)
         IN  Round3(IF big[1] = small[1] \/ Less3(Bq, A) THEN big[1] ELSE small[1],
                    IF big[1] = small[1] THEN Add3(A, Bq)
                    ELSE IF Less3(Bq, A) THEN Sub3(A, Bq)
                    ELSE Sub3(Bq, A),
                    big[4] - 3)

\* x / n for an int n in 1..16: the exact quotient rounded once.
FDiv(x, n) ==
    IF IsNaN(x) \/ IsInf(x) THEN x
    ELSE IF x[1] = 0 THEN Zero
    ELSE LET q1 == x[2] \div n
             t2 == (x[2] % n) * B + x[3]
             q2 == t2 \div n
             t3 == (t2 % n) * B
             q3 == t3 \div n
         IN  Round3(x[1], Sticky(<<q1, q2, q3>>, t3 % n # 0), x[4] - 27)

MagLess(x, y) ==
    \/ x[4] < y[4]
    \/ x[4] = y[4] /\ x[2] < y[2]
    \/ x[4] = y[4] /\ x[2] = y[2] /\ x[3] < y[3]

\* x < y; every comparison with nan is false
FLess(x, y) ==
    IF IsNaN(x) \/ IsNaN(y) THEN FALSE
    ELSE IF IsInf(x) THEN x = NegInf /\ y # NegInf
    ELSE IF IsInf(y) THEN y = PosInf
    ELSE IF x[1] # y[1] THEN x[1] < y[1]
    ELSE IF x[1] = 1 THEN MagLess(x, y)
    ELSE IF x[1] = -1 THEN MagLess(y, x)
    ELSE FALSE

\* Python's min(a, b, c): the first of the smallest arguments.
min(a, b, c) ==
    LET ab == IF FLess(b, a) THEN b ELSE a
    IN  IF FLess(c, ab) THEN c ELSE ab

max(m, n) == IF n > m THEN n ELSE m

None == <<"None">>

\* ------------------------------------------------- levenshtein_distance
VOWELS == {"3", "a", "e", "E", "i", "o", "u"}

\* Faults of the substitution rule, used to test the theorems below.
sub_cost_no_vowel(c1, c2, vw) ==
    IF c1 = c2 THEN float(0) ELSE float(1)

sub_cost_one_sided(c1, c2, vw) ==
    IF c1 = c2 THEN float(0)
    ELSE IF c1 \in VOWELS THEN vw
    ELSE float(1)

sub_cost_far(c1, c2, vw) ==
    IF c1 = c2 THEN float(0)
    ELSE IF c1 \in VOWELS /\ c2 \in VOWELS THEN vw
    ELSE float(3)

sub_cost_no_identity(c1, c2, vw) ==
    IF c1 \in VOWELS /\ c2 \in VOWELS THEN vw
    ELSE IF c1 = c2 THEN float(0)
    ELSE float(1)

sub_cost(c1, c2, vw) ==
    IF c1 = c2 THEN float(0)
    ELSE IF c1 \in VOWELS /\ c2 \in VOWELS THEN vw
    ELSE float(1)

\* dp after lines 50-56: zeros, then the first column and the first row.
InitTable(len1, len2) ==
    [i \in 0..len1 |-> [j \in 0..len2 |->
        IF j = 0 THEN float(i) ELSE IF i = 0 THEN float(j) ELSE float(0)]]

Cell(dp, a, b, vw, i, j) ==
    LET deletion == FAdd(dp[i - 1][j], float(1))
        insertion == FAdd(dp[i][j - 1], float(1))
        substitution == FAdd(dp[i - 1][j - 1], sub_cost(a[i], b[j], vw))
    IN  min(deletion, insertion, substitution)

\* The nested loops of lines 58-76, from cell (i, j) on, in row-major order,
\* over the rows 1..len1 and the columns 1..len2 of the table.
RECURSIVE Fill(_, _, _, _, _, _)
Fill(dp, a, b, vw, i, j) ==
    IF i \notin DOMAIN dp \/ j \notin DOMAIN dp[i] THEN dp
    ELSE Fill([dp EXCEPT ![i][j] = Cell(dp, a, b, vw, i, j)], a, b, vw,
              IF j < Len(b) THEN i ELSE i + 1,
              IF j < Len(b) THEN j + 1 ELSE 1)

levenshtein_distance(a0, b0, vw) ==
    LET a == IF a0 = None THEN <<>> ELSE a0
        b == IF b0 = None THEN <<>> ELSE b0
    IN  Fill(InitTable(Len(a), Len(b)), a, b, vw, 1, 1)[Len(a)][Len(b)]

\* ----------------------------------------------------- statistics.mean
StatisticsError == <<"StatisticsError">>

\* The exact total <<N, e>>, N * 2^e, of the total acc and the float x; the
\* data of the program are normalised distances, never negative and within a
\* few binades.
add_exact(acc, x) ==
    IF x[1] = 0 THEN acc
    ELSE IF acc[1] = <<0, 0, 0>> THEN <<<<0, x[2], x[3]>>, x[4]>>
    ELSE IF acc[2] < x[4]
         THEN <<Add3(acc[1], Shl3(<<0, x[2], x[3]>>, x[4] - acc[2])), acc[2]>>
         ELSE <<Add3(Shl3(acc[1], acc[2] - x[4]), <<0, x[2], x[3]>>), x[4]>>

\* The exact total of acc and data[k..].
RECURSIVE fsum(_, _, _)
fsum(data, k, acc) ==
    IF k > Len(data) THEN acc
    ELSE fsum(data, k + 1, add_exact(acc, data[k]))

\* The exact total t divided by n (1..16) and rounded once to a float.
div_round(t, n) ==
    LET q1 == t[1][1] \div n
        t2 == (t[1][1] % n) * B + t[1][2]
        q2 == t2 \div n
        t3 == (t2 % n) * B + t[1][3]
        q3 == t3 \div n
        t4 == (t3 % n) * B
        q4 == t4 \div n
    IN  IF q1 > 0
        THEN Round3(1, Sticky(<<q1, q2, q3>>, q4 # 0 \/ t4 % n # 0), t[2])
        ELSE Round3(1, Sticky(<<q2, q3, q4>>, t4 % n # 0), t[2] - 27)

\* statistics.mean: the exact total of the data divided by their number and
\* rounded once to a float; raises StatisticsError on no data.
mean(data) ==
    IF Len(data) < 1 THEN StatisticsError
    ELSE div_round(fsum(data, 1, <<<<0, 0, 0>>, 0>>), Len(data))

\* ---------------------------------------------------------- concept_nld
\* Body of the inner loop, lines 95-100.
pair_nld_min_len(a, b) ==
    LET dist == levenshtein_distance(a, b, float(1))
        min_len == IF Len(a) < Len(b) THEN Len(a) ELSE Len(b)
    IN  IF min_len = 0 THEN float(0) ELSE FDiv(dist, min_len)

pair_nld(a, b) ==
    LET dist == levenshtein_distance(a, b, float(1))
        max_len == max(Len(a), Len(b))
    IN  IF max_len = 0 THEN float(0) ELSE FDiv(dist, max_len)

\* Lines 103-105: 0.0 for no pair, else the mean of the pairs.
mean_or_zero(nlds) == IF nlds = <<>> THEN float(0) ELSE mean(nlds)

\* nlds after the loops of lines 93-101 have run from pair (i, j) on.
RECURSIVE nlds_loop(_, _, _, _, _)
nlds_loop(nlds, f1, f2, i, j) ==
    IF i > Len(f1) \/ Len(f2) = 0 THEN nlds
    ELSE nlds_loop(Append(nlds, pair_nld(f1[i], f2[j])), f1, f2,
                   IF j < Len(f2) THEN i ELSE i + 1,
                   IF j < Len(f2) THEN j + 1 ELSE 1)

\* Fault: pairs the forms position by position instead of all with all.
concept_nld_zip(f1, f2) ==
    mean_or_zero([k \in 1..(IF Len(f1) < Len(f2) THEN Len(f1) ELSE Len(f2)) |->
                    pair_nld(f1[k], f2[k])])

concept_nld(f1, f2) == mean_or_zero(nlds_loop(<<>>, f1, f2, 1, 1))

\* ----------------------------------------------------- Wordlist.mean_nld
\* order is the order in which the Python set common_concepts is iterated.
mean_nld_first_only(self_c, other_c, order) ==
    IF order = <<>> THEN StatisticsError
    ELSE concept_nld(self_c[order[1]], other_c[order[1]])

mean_nld_silent_zero(self_c, other_c, order) ==
    IF order = <<>> THEN float(0)
    ELSE mean([k \in 1..Len(order) |->
                concept_nld(self_c[order[k]], other_c[order[k]])])

mean_nld(self_c, other_c, order) ==
    mean([k \in 1..Len(order) |->
            concept_nld(self_c[order[k]], other_c[order[k]])])

common_concepts(self_c, other_c) == DOMAIN self_c \cap DOMAIN other_c

\* ---------------------------------------------------------------- ASJP
\* str.split(", ") from position k on, piece being the form read so far.
RECURSIVE split_from(_, _, _)
split_from(s, k, piece) ==
    IF k > Len(s) THEN <<piece>>
    ELSE IF k < Len(s) /\ s[k] = "," /\ s[k + 1] = " "
         THEN <<piece>> \o split_from(s, k + 2, <<>>)
         ELSE split_from(s, k + 1, Append(piece, s[k]))

split(s) == split_from(s, 1, <<>>)

Wordlist(iso, name, concepts) == [iso |-> iso, name |-> name, concepts |-> concepts]

\* Wordlist.__len__
Wordlist_len(wl) == Cardinality(DOMAIN wl.concepts)

\* Lines 189-200: the Wordlist made of one row; row.cells are the fields
\* reader.fieldnames[10:] of the row.
row_wordlist(row) ==
    LET concept_names == DOMAIN row.cells
        concepts == [c \in {n \in concept_names : row.cells[n] # <<>>} |->
                        split(row.cells[c])]
    IN  Wordlist(row.iso, row.names, concepts)

\* Faults of the duplicate rule.
resolve_always_new(registry, wordlist) == wordlist

resolve_keep_on_tie(registry, wordlist) ==
    IF wordlist.iso \in DOMAIN registry
       /\ Wordlist_len(wordlist) <= Wordlist_len(registry[wordlist.iso])
    THEN registry[wordlist.iso]
    ELSE wordlist

\* Lines 205-208: the Wordlist to register for wordlist.iso; the old one
\* stays only when it is strictly longer than the new one.
resolve(registry, wordlist) ==
    IF wordlist.iso \in DOMAIN registry
       /\ Wordlist_len(wordlist) < Wordlist_len(registry[wordlist.iso])
    THEN registry[wordlist.iso]
    ELSE wordlist

\* Line 209: language_wordlist[iso] = wordlist
dict_set(d, key, value) ==
    [k \in DOMAIN d \cup {key} |-> IF k = key THEN value ELSE d[k]]

\* ------------------------------------------------------------ inputs
Alphabet == {"a", "e", "t"}

\* Some longer strings; six vowels against six other vowels is the shortest
\* case where the sum of the substitution costs and their product part.
Longer ==
    {<<"a", "a", "a">>, <<"e", "e", "e">>, <<"t", "a", "t">>, <<"a", "e", "a">>,
     <<"a", "a", "a", "a", "a", "a">>, <<"e", "e", "e", "e", "e", "e">>}

Strings == UNION {[1..n -> Alphabet] : n \in 0..MaxLen} \cup Longer

\* -inf, -1.7e308, -3.0, -0.1, 0.0, 5e-324, 0.1, 0.5, 1.0, 1.2, 2.5, inf, nan
Weights ==
    {NegInf, <<-1, 63461926, 7814006, 971>>, float(-3), FDiv(float(-1), 10),
     float(0), <<1, 33554432, 0, -1126>>, FDiv(float(1), 10),
     FDiv(float(1), 2), float(1), FDiv(float(12), 10), FDiv(float(5), 2),
     PosInf, NaN}

NotCalled == <<"NotCalled">>
Idle == <<"Idle">>
LevIdle == s1 = Idle /\ s2 = Idle /\ vowel_weight = Idle /\ lev_ret = Idle
ConceptIdle == forms1 = Idle /\ forms2 = Idle /\ nld_ret = Idle
LangIdle == self_concepts = Idle /\ other_concepts = Idle /\ mean_ret = Idle
AsjpIdle == rows = Idle /\ row_i = 0 /\ language_wordlist = Idle

\* ------------------------------------------------ distance specification
InitLev ==
    /\ s1 \in Strings \cup {None}
    /\ s2 \in Strings \cup {None}
    /\ vowel_weight \in Weights
    /\ lev_ret = NotCalled
    /\ ConceptIdle /\ LangIdle /\ AsjpIdle

CallLevenshtein ==
    /\ lev_ret = NotCalled
    /\ lev_ret' = levenshtein_distance(s1, s2, vowel_weight)
    /\ UNCHANGED <<s1, s2, vowel_weight, conceptVars, langVars, asjpVars>>

NextLev == CallLevenshtein

SpecLev == InitLev /\ [][NextLev]_vars

\* ---------------------------------------------- concept_nld specification
tan == <<"t", "a", "n">>
ston == <<"s", "t", "o", "n">>
Lexicon == {<<>>, <<"a">>, tan, ston}

FormLists(lo) == UNION {[1..n -> Lexicon] : n \in lo..MaxForms}

InitConcept ==
    /\ forms1 \in FormLists(0)
    /\ forms2 \in FormLists(0)
    /\ nld_ret = NotCalled
    /\ LevIdle /\ LangIdle /\ AsjpIdle

CallConceptNld ==
    /\ nld_ret = NotCalled
    /\ nld_ret' = concept_nld(forms1, forms2)
    /\ UNCHANGED <<forms1, forms2, levVars, langVars, asjpVars>>

NextConcept == CallConceptNld

SpecConcept == InitConcept /\ [][NextConcept]_vars

\* ------------------------------------------------- mean_nld specification
Concepts == {"stone", "water", "fire"}
LangForms == {<<tan>>, <<ston>>, <<<<"a">>, tan>>}
ConceptMaps == UNION {[ks -> LangForms] : ks \in SUBSET Concepts}

Orders(S) ==
    {o \in [1..Cardinality(S) -> S] :
        \A m, n \in 1..Cardinality(S) : m # n => o[m] # o[n]}

InitLang ==
    /\ self_concepts \in ConceptMaps
    /\ other_concepts \in ConceptMaps
    /\ mean_ret = NotCalled
    /\ LevIdle /\ ConceptIdle /\ AsjpIdle

CallMeanNld ==
    /\ mean_ret = NotCalled
    /\ \E order \in Orders(common_concepts(self_concepts, other_concepts)) :
            mean_ret' = mean_nld(self_concepts, other_concepts, order)
    /\ UNCHANGED <<self_concepts, other_concepts, levVars, conceptVars, asjpVars>>

NextLang == CallMeanNld

SpecLang == InitLang /\ [][NextLang]_vars

\* ----------------------------------------------------- ASJP specification
Isos == {"swe", "eng"}
Names == {"Swedish", "English"}
ConceptNames == {"stone", "water"}
RawCells == {<<>>, <<"a", ",", " ", "e">>}
Rows == [iso : Isos, names : Names, cells : [ConceptNames -> RawCells]]

InitASJP ==
    /\ rows \in UNION {[1..n -> Rows] : n \in 0..MaxRows}
    /\ row_i = 1
    /\ language_wordlist = <<>>
    /\ LevIdle /\ ConceptIdle /\ LangIdle

\* One iteration of the loop over the rows of the file, lines 188-209.
ReadRow ==
    /\ row_i >= 1 /\ row_i <= Len(rows)
    /\ LET wordlist == row_wordlist(rows[row_i])
       IN  language_wordlist' =
               dict_set(language_wordlist, wordlist.iso,
                        resolve(language_wordlist, wordlist))
    /\ row_i' = row_i + 1
    /\ UNCHANGED <<rows, levVars, conceptVars, langVars>>

NextASJP == ReadRow

SpecASJP == InitASJP /\ [][NextASJP]_vars

\* ------------------------------------------------- edit scripts (C1)
\* An edit script for (a, b) is a left-to-right sequence of operations that
\* consumes a and produces b: delete the next symbol of a (cost 1), insert
\* the next symbol of b (cost 1), or replace the next symbol of a by the next
\* of b (cost 0 for a symbol itself, w for two different vowels, 1 otherwise).
BothVowels(x, y) == {x, y} \subseteq {"3", "a", "e", "E", "i", "o", "u"}

ReplaceCost(x, y, w) ==
    IF x = y THEN float(0) ELSE IF BothVowels(x, y) THEN w ELSE float(1)

Plus(C, c) == {FAdd(x, c) : x \in C}

\* The total costs of the scripts turning a[1..i] into b[1..j], from those
\* of the shorter prefixes in T: a script ends in a deletion, an insertion
\* or a replacement, whose cost is added last.
CostsAt(T, a, b, w, i, j) ==
    (IF i > 0 THEN Plus(T[i - 1][j], float(1)) ELSE {})
    \cup (IF j > 0 THEN Plus(T[i][j - 1], float(1)) ELSE {})
    \cup (IF i > 0 /\ j > 0
            THEN Plus(T[i - 1][j - 1], ReplaceCost(a[i], b[j], w)) ELSE {})

RECURSIVE CostsFrom(_, _, _, _, _, _)
CostsFrom(T, a, b, w, i, j) ==
    IF i \notin DOMAIN T THEN T
    ELSE LET T2 == IF i = 0 /\ j = 0 THEN T
                   ELSE [T EXCEPT ![i][j] = CostsAt(T, a, b, w, i, j)]
         IN  IF j < Len(b) THEN CostsFrom(T2, a, b, w, i, j + 1)
             ELSE CostsFrom(T2, a, b, w, i + 1, 0)

\* The set of the total costs of all edit scripts turning a into b, the
\* costs of the operations of a script being added in floating point in the
\* order of the script; the empty script costs 0.0.
ScriptCosts(a, b, w) ==
    LET T0 == [i \in 0..Len(a) |-> [j \in 0..Len(b) |-> {float(0)}]]
    IN  CostsFrom(T0, a, b, w, 0, 0)[Len(a)][Len(b)]

\* x <= y
FLeq(x, y) == ~IsNaN(x) /\ ~IsNaN(y) /\ ~FLess(y, x)

\* float(n) * x for an int n in 0..16: the exact product rounded once.
FMul(n, x) ==
    IF IsNaN(x) THEN NaN
    ELSE IF IsInf(x) THEN (IF n = 0 THEN NaN ELSE x)
    ELSE IF n = 0 \/ x[1] = 0 THEN Zero
    ELSE Round3(x[1], Norm3(0, x[2] * n, x[3] * n), x[4])

AsStr(x) == IF x = None THEN <<>> ELSE x
Called == lev_ret # NotCalled /\ lev_ret # Idle
MaxLenOf(a, b) == IF Len(a) > Len(b) THEN Len(a) ELSE Len(b)
Half == FDiv(float(1), 2)

\* C1: the returned distance is the minimum total cost over all edit scripts
\* turning a into b (deletion 1, insertion 1, substitution 0 for identical
\* symbols, vowel_weight for two different vowels, 1 otherwise): it is the
\* cost of a script and no script costs less; in particular
\* distance("", x) = 3.0 for |x| = 3, distance("a", "e") = 1.0 at weight 1.0
\* and 0.5 at weight 0.5.
C1_MinEditScript ==
    Called =>
        LET costs == ScriptCosts(AsStr(s1), AsStr(s2), vowel_weight)
        IN  /\ lev_ret \in costs
            /\ \A d \in costs : ~FLess(d, lev_ret)
            /\ (s1 = <<>> /\ s2 # None /\ Len(s2) = 3 => lev_ret = float(3))
            /\ (s1 = <<"a">> /\ s2 = <<"e">> /\ vowel_weight = float(1)
                    => lev_ret = float(1))
            /\ (s1 = <<"a">> /\ s2 = <<"e">> /\ vowel_weight = Half
                    => lev_ret = Half)

\* "tat" -> "et" at weight 0.5: delete t, replace a by e, keep t: 1.5.
C1_Witness ==
    /\ Called
    /\ s1 = <<"t", "a", "t">> /\ s2 = <<"e", "t">> /\ vowel_weight = Half
    /\ lev_ret = FDiv(float(3), 2)

\* C2 as stated: for every vowel_weight, the distance is 0 iff a = b.
C2_ZeroIffEqual_AnyWeight ==
    Called /\ s1 # None /\ s2 # None => (lev_ret = float(0) <=> s1 = s2)

\* C2 amended: for vowel_weight > 0 the distance is 0 iff a = b, and for
\* vowel_weight >= 0 the distance of a string to itself is 0.
C2_ZeroIffEqual ==
    Called /\ s1 # None /\ s2 # None =>
        /\ (FLess(float(0), vowel_weight) => (lev_ret = float(0) <=> s1 = s2))
        /\ (FLeq(float(0), vowel_weight) /\ s1 = s2 => lev_ret = float(0))

C2_Witness ==
    /\ Called
    /\ s1 = <<"a", "e", "a">> /\ s2 = s1 /\ vowel_weight = Half
    /\ lev_ret = float(0)

\* C3: the distance is symmetric in its two strings, for every weight.
C3_Symmetric ==
    Called => lev_ret = levenshtein_distance(s2, s1, vowel_weight)

\* "et" -> "tat" at weight 0.1: insert t, replace e by a, keep t: 1.1, and
\* the same for "tat" -> "et".
C3_Witness ==
    /\ Called
    /\ s1 = <<"e", "t">> /\ s2 = <<"t", "a", "t">>
    /\ vowel_weight = FDiv(float(1), 10)
    /\ lev_ret = FAdd(float(1), FDiv(float(1), 10))

\* Python's max(1.0, w): w when 1.0 < w, else 1.0.
MaxOneOr(w) == IF FLess(float(1), w) THEN w ELSE float(1)

UpperBound(a, b, w) == FMul(MaxLenOf(a, b), MaxOneOr(w))

\* w + w + ... + w, n terms added from left to right.
RECURSIVE RepeatedSum(_, _)
RepeatedSum(w, n) == IF n = 0 THEN float(0) ELSE FAdd(RepeatedSum(w, n - 1), w)

\* C4 as stated: for every vowel_weight,
\* 0 <= distance <= max(len(a), len(b)) * max(1.0, vowel_weight), and
\* distance <= max(len(a), len(b)) when vowel_weight <= 1.
C4_Bounds_AnyWeight ==
    Called =>
        /\ FLeq(float(0), lev_ret)
        /\ FLeq(lev_ret, UpperBound(AsStr(s1), AsStr(s2), vowel_weight))
        /\ (FLeq(vowel_weight, float(1))
                => FLeq(lev_ret, float(MaxLenOf(AsStr(s1), AsStr(s2)))))

\* C4 amended: for vowel_weight >= 0 the distance is at least 0; for
\* vowel_weight <= 1 it is at most max(len(a), len(b)); for
\* vowel_weight > 1 it is at most the floating-point sum
\* vowel_weight + ... + vowel_weight of max(len(a), len(b)) terms, which
\* rounding can take above the product.
C4_Bounds ==
    Called =>
        LET n == MaxLenOf(AsStr(s1), AsStr(s2))
        IN  /\ (FLeq(float(0), vowel_weight) => FLeq(float(0), lev_ret))
            /\ (FLeq(vowel_weight, float(1)) => FLeq(lev_ret, float(n)))
            /\ (FLess(float(1), vowel_weight)
                    => FLeq(lev_ret, RepeatedSum(vowel_weight, n)))

\* "aaaaaa" -> "eeeeee" at weight 1.2: six replacements, 7.2, one unit in the
\* last place above 6 * 1.2 = 7.199999999999999.
C4_Witness ==
    /\ Called
    /\ s1 = <<"a", "a", "a", "a", "a", "a">> /\ s2 = <<"e", "e", "e", "e", "e", "e">>
    /\ vowel_weight = FDiv(float(12), 10)
    /\ lev_ret = RepeatedSum(vowel_weight, 6)
    /\ lev_ret = <<1, 60397977, 80530637, -50>>
    /\ UpperBound(s1, s2, vowel_weight) = <<1, 60397977, 80530636, -50>>
    /\ FLess(UpperBound(s1, s2, vowel_weight), lev_ret)

\* ------------------------------------------------- aggregation theorems
ConceptCalled == nld_ret # NotCalled /\ nld_ret # Idle
LangCalled == mean_ret # NotCalled /\ mean_ret # Idle

\* Normalised distance of one pair of forms, as the specification states it.
NldOf(x, y) ==
    IF Len(x) = 0 /\ Len(y) = 0 THEN float(0)
    ELSE FDiv(levenshtein_distance(x, y, float(1)), MaxLenOf(x, y))

\* The elements of a finite set, listed once each in some order.
RECURSIVE Listed(_)
Listed(S) ==
    IF S = {} THEN <<>>
    ELSE LET x == CHOOSE y \in S : TRUE IN <<x>> \o Listed(S \ {x})

\* C7: concept_nld returns the arithmetic mean, over every pair of positions
\* of forms1 x forms2, of the default-weight distance divided by the longer
\* length (0.0 for two empty strings); it returns 0.0 when either list is
\* empty, and 0.0 for a single form compared with itself.
C7_ConceptMean ==
    ConceptCalled =>
        LET pairs == Listed((1..Len(forms1)) \X (1..Len(forms2)))
        IN  /\ (pairs = <<>> => nld_ret = float(0))
            /\ (pairs # <<>> =>
                    nld_ret = mean([k \in 1..Len(pairs) |->
                                NldOf(forms1[pairs[k][1]], forms2[pairs[k][2]])]))
            /\ (Len(forms1) = 1 /\ forms2 = forms1 => nld_ret = float(0))

\* ["", "a"] against ["tan"]: the mean of 3/3 and 2/3, the latter rounded
\* before it is averaged: 0.8333333333333333, one unit in the last place
\* below the float nearest 5/6.
C7_Witness ==
    /\ ConceptCalled
    /\ forms1 = <<<<>>, <<"a">>>> /\ forms2 = <<tan>>
    /\ nld_ret = <<1, 55924053, 44739242, -53>>
    /\ nld_ret # FDiv(float(5), 6)

\* C5: mean_nld returns the arithmetic mean of concept_nld over exactly the
\* concepts that are keys of both word lists, whatever the order in which
\* the shared concepts are visited.
C5_LanguageMean ==
    LangCalled =>
        LET shared == Listed(DOMAIN self_concepts \cap DOMAIN other_concepts)
        IN  shared # <<>> =>
                mean_ret = mean([k \in 1..Len(shared) |->
                                concept_nld(self_concepts[shared[k]],
                                            other_concepts[shared[k]])])

\* Two shared concepts of three and two: the mean of 1/3 (rounded) and 1/2,
\* 0.41666666666666663, for either order of the two.
C5_Witness ==
    /\ LangCalled
    /\ self_concepts = [c \in {"fire", "stone", "water"} |->
            IF c = "water" THEN <<ston>> ELSE <<<<"a">>, tan>>]
    /\ other_concepts = [c \in {"fire", "water"} |->
            IF c = "water" THEN <<tan>> ELSE <<<<"a">>, tan>>]
    /\ mean_ret = <<1, 55924053, 44739242, -54>>

\* C6: when the two word lists share no concept, mean_nld ends in an error
\* and returns no number.
C6_DisjointRaises ==
    LangCalled /\ DOMAIN self_concepts \cap DOMAIN other_concepts = {}
        => mean_ret = StatisticsError

C6_Witness ==
    /\ LangCalled
    /\ DOMAIN self_concepts = {"stone"} /\ DOMAIN other_concepts = {"water", "fire"}
    /\ mean_ret = StatisticsError

EndToEnd ==
    /\ LangCalled
    /\ self_concepts = [c \in {"stone"} |-> <<tan>>]
    /\ other_concepts = [c \in {"stone"} |-> <<ston>>]

\* C10 as stated: distance("tan", "ston") is 3.0, concept_nld is 0.75 and
\* mean_nld of {"stone": ["tan"]} and {"stone": ["ston"]} is 0.75.
C10_EndToEnd_Three ==
    EndToEnd =>
        /\ levenshtein_distance(tan, ston, float(1)) = float(3)
        /\ concept_nld(<<tan>>, <<ston>>) = FDiv(float(3), 4)
        /\ mean_ret = FDiv(float(3), 4)

\* C10 amended: distance("tan", "ston") is 2.0 (insert s, replace a by o),
\* concept_nld(["tan"], ["ston"]) is 2 / max(3, 4) = 0.5, and mean_nld of
\* {"stone": ["tan"]} and {"stone": ["ston"]} is 0.5.
C10_EndToEnd ==
    EndToEnd =>
        /\ levenshtein_distance(tan, ston, float(1)) = float(2)
        /\ concept_nld(<<tan>>, <<ston>>) = Half
        /\ mean_ret = Half

C10_Witness == EndToEnd /\ mean_ret = Half

\* ----------------------------------------------------- registry theorems
\* Rows read so far, and among them those of one identifier.
Read == 1..(row_i - 1)
ReadOf(iso) == {k \in Read : rows[k].iso = iso}

\* Number of concepts a row has data for.
ConceptCount(row) == Cardinality({n \in DOMAIN row.cells : row.cells[n] # <<>>})

Richest(iso) ==
    {k \in ReadOf(iso) : \A m \in ReadOf(iso) : ConceptCount(rows[m]) <= ConceptCount(rows[k])}

First(S) == CHOOSE k \in S : \A m \in S : k <= m
Last(S) == CHOOSE k \in S : \A m \in S : m <= k

\* C8: after any sequence of rows is read, the registry holds, for every
\* identifier read, one of the records of that identifier, and its number of
\* concepts is the greatest among the records of that identifier.
C8_KeepsRichest ==
    row_i >= 1 =>
        /\ DOMAIN language_wordlist = {rows[k].iso : k \in Read}
        /\ \A iso \in DOMAIN language_wordlist :
              \E k \in Richest(iso) :
                 /\ language_wordlist[iso] = row_wordlist(rows[k])
                 /\ Cardinality(DOMAIN language_wordlist[iso].concepts)
                        = ConceptCount(rows[k])

C8_Witness ==
    /\ row_i = 4
    /\ rows[1].iso = "swe" /\ ConceptCount(rows[1]) = 1
    /\ rows[2].iso = "swe" /\ ConceptCount(rows[2]) = 2
    /\ rows[3].iso = "swe" /\ ConceptCount(rows[3]) = 0
    /\ language_wordlist["swe"] = row_wordlist(rows[2])

\* C9 as stated: among the richest records of an identifier the registry
\* keeps the earliest read.
C9_TieKeepsEarliest ==
    row_i >= 1 =>
        \A iso \in DOMAIN language_wordlist :
            language_wordlist[iso] = row_wordlist(rows[First(Richest(iso))])

\* C9 amended: among the richest records of an identifier the registry
\* keeps the latest read: a later record with an equal number of concepts
\* replaces the one already registered.
C9_TieKeepsLatest ==
    row_i >= 1 =>
        \A iso \in DOMAIN language_wordlist :
            language_wordlist[iso] = row_wordlist(rows[Last(Richest(iso))])

C9_Witness ==
    /\ row_i = 3
    /\ rows[1].iso = "eng" /\ rows[2].iso = "eng"
    /\ ConceptCount(rows[1]) = 1 /\ ConceptCount(rows[2]) = 1
    /\ rows[1].names # rows[2].names
    /\ language_wordlist["eng"] = row_wordlist(rows[2])
    /\ language_wordlist["eng"] # row_wordlist(rows[1])

====
